---- MODULE Spec2Model ----
(***************************************************************************)
(* Cashier cart reservation and inventory availability of the warung       *)
(* dashboard: src/app/dashboard/cashier/page.tsx (CashierPage) and the     *)
(* saved-cart store src/unnamed/part_012 (imported as "@/lib/carts").      *)
(*                                                                         *)
(* Every handler of the page is one action.  React re-renders between two  *)
(* discrete events, so a handler reads the state of the latest render; an  *)
(* async handler keeps the values it captured when it was called, and      *)
(* those are stored in the request it left in flight.                      *)
(* handleQRScan is left out: QRScanner.scanFrame (QRScanner.tsx:58-61)     *)
(* runs with the `scanning` value of the render that opened the scanner,   *)
(* which is false, and returns before it ever calls onScanSuccess.         *)
(***************************************************************************)
EXTENDS Integers, Sequences, FiniteSets, TLC

VARIABLES
    cart,                 \* useState<CartItem[]>           page.tsx:47
    savedCarts,           \* useState<SavedCart[]>          page.tsx:49
    store,                \* localStorage[STORAGE_KEY]      part_012:18
    currentCartId,        \* useState<string | null>        page.tsx:54
    cartName,             \* useState("")                   page.tsx:55
    isSaveCartModalOpen,  \* page.tsx:50
    isLoadCartModalOpen,  \* page.tsx:51
    isCheckoutModalOpen,  \* page.tsx:52
    inventory,            \* useState<InventoryItem[]>      page.tsx:57
    displayedProducts,    \* useState<Product[]>            page.tsx:56
    searchQuery,          \* page.tsx:46
    isLoading,            \* page.tsx:58
    hasMoreInventoryRef,  \* page.tsx:63
    isLoadingMoreRef,     \* page.tsx:64
    inventoryOffsetRef,   \* page.tsx:65
    pendingFetches,       \* inventory requests in flight (fetch, page.tsx:97 and :169)
    pendingCheckouts,     \* order submissions in flight (fetch, page.tsx:559)
    now,                  \* the wall clock read by Date.now() / new Date()
    alert,                \* what the last step showed with window.alert
    completed             \* the order submission whose response the last step handled

ledgerVars  == <<cart, savedCarts, store, currentCartId, cartName>>
modalVars   == <<isSaveCartModalOpen, isLoadCartModalOpen, isCheckoutModalOpen>>
catalogVars == <<inventory, displayedProducts, searchQuery, isLoading,
                 hasMoreInventoryRef, isLoadingMoreRef, inventoryOffsetRef, pendingFetches>>
vars == <<cart, savedCarts, store, currentCartId, cartName,
          isSaveCartModalOpen, isLoadCartModalOpen, isCheckoutModalOpen,
          inventory, displayedProducts, searchQuery, isLoading,
          hasMoreInventoryRef, isLoadingMoreRef, inventoryOffsetRef, pendingFetches,
          pendingCheckouts, now, alert, completed>>

----------------------------------------------------------------------------
(* Bounds of the model *)

\* number of carts saved in one run: the clock advances with every first save of a
\* cart, so that `cart-${Date.now()}` is a new id each time
MaxClock == 2
\* order submissions in flight at the same time
MaxCheckouts == 2
\* inventory requests in flight at the same time
MaxFetches == 2
\* records in one page of the inventory feed: the page size LIMIT of page.tsx:68 is
\* 100; it is kept small so that the stock of a search arrives in several pages
LIMIT == 2

----------------------------------------------------------------------------
(* The backend: products and stock records served by /api/inventories *)

Products == {"p1", "p2"}

\* product.selling_price of the records the backend serves
Price(p) == IF p = "p1" THEN 3 ELSE 5


\* currentCartId = null; saved carts have ids cart-1, cart-2, ...
NoCart == 0

\* A stock record: expiry is expiry_date in days from today.
Rec(i, p, q, e) == [id |-> i, product |-> p, quantity |-> q, expiry |-> e]

SearchTerms == {"a", "b"}

\* What the backend holds for a search term (constant during a run).
Backend(q) ==
    IF q = "a" THEN << Rec(1, "p1", 2, 30), Rec(2, "p1", 1, 7),
                       Rec(3, "p2", 1, 3),  Rec(4, "p2", 5, -1) >>
    ELSE IF q = "b" THEN << Rec(5, "p1", 1, 0), Rec(6, "p1", 1, 12), Rec(4, "p2", 5, -1) >>
    ELSE << Rec(1, "p1", 2, 30), Rec(2, "p1", 1, 7), Rec(3, "p2", 1, 3),
            Rec(4, "p2", 5, -1), Rec(5, "p1", 1, 0), Rec(6, "p1", 1, 12) >>

Min(a, b) == IF a < b THEN a ELSE b
Max(a, b) == IF a > b THEN a ELSE b

\* GET /api/inventories?limit=LIMIT&offset=..&search=..
Page(q, offset) == SubSeq(Backend(q), offset + 1, Min(offset + LIMIT, Len(Backend(q))))

----------------------------------------------------------------------------
(* Map<string, number> as a function on the keys that were set *)

EmptyMap == [k \in {} |-> 0]

\* map.get(k) || 0
MapGet(m, k) == IF k \in DOMAIN m THEN m[k] ELSE 0

\* map.set(k, v)
MapSet(m, k, v) == [x \in (DOMAIN m) \cup {k} |-> IF x = k THEN v ELSE m[x]]


----------------------------------------------------------------------------
(* Values derived at every render (useMemo) *)

\* getExpiryStatus: diffDays is the record's expiry in days from today
getExpiryStatus(expiry) ==
    IF expiry < 0 THEN "expired"
    ELSE IF expiry <= 7 THEN "near_expiry"
    ELSE "valid"

\* items.forEach(item => map.set(item.id, (map.get(item.id) || 0) + item.quantity))
RECURSIVE AddItems(_, _)
AddItems(m, items) ==
    IF items = <<>> THEN m
    ELSE AddItems(MapSet(m, Head(items).id, MapGet(m, Head(items).id) + Head(items).quantity),
                  Tail(items))

\* savedCarts.forEach: skip the cart that is the current one, add the items of the others
RECURSIVE AddSavedCarts(_, _, _)
AddSavedCarts(m, carts, current) ==
    IF carts = <<>> THEN m
    ELSE AddSavedCarts(IF current # NoCart /\ Head(carts).id = current
                          THEN m
                          ELSE AddItems(m, Head(carts).items),
                       Tail(carts), current)

\* reservedQuantities with the current cart's saved copy counted as well
reservedQuantities_countsCurrent ==
    AddItems(AddSavedCarts(EmptyMap, savedCarts, NoCart), cart)

reservedQuantities ==
    AddItems(AddSavedCarts(EmptyMap, savedCarts, currentCartId), cart)

\* a filter that looks at the quantity only
IsSellable_ignoresExpiry(item) == item.quantity > 0

\* the filter of totalInventoryQuantity
IsSellable(item) ==
    /\ item.quantity > 0
    /\ getExpiryStatus(item.expiry) \in {"valid", "near_expiry"}

RECURSIVE AddStock(_, _)
AddStock(m, items) ==
    IF items = <<>> THEN m
    ELSE AddStock(MapSet(m, Head(items).product, MapGet(m, Head(items).product) + Head(items).quantity),
                  Tail(items))

totalInventoryQuantity == AddStock(EmptyMap, SelectSeq(inventory, IsSellable))

\* productInventoryQuantity without the Math.max(0, ...) floor
productInventoryQuantity_noFloor ==
    LET quantityMap == totalInventoryQuantity
        reserved == reservedQuantities
    IN  [p \in (DOMAIN quantityMap) \cup (DOMAIN reserved) |->
            MapGet(quantityMap, p) - MapGet(reserved, p)]

\* new Map(totalInventoryQuantity), then for every reserved product
\* set(productId, Math.max(0, (get(productId) || 0) - reservedQty))
productInventoryQuantity ==
    LET quantityMap == totalInventoryQuantity
        reserved == reservedQuantities
    IN  [p \in (DOMAIN quantityMap) \cup (DOMAIN reserved) |->
            IF p \in DOMAIN reserved
            THEN Max(0, MapGet(quantityMap, p) - reserved[p])
            ELSE quantityMap[p]]

\* the available quantity taken from totalInventoryQuantity (the totalQty that
\* addToCart also reads), with no reservation subtracted
AvailableQuantity_totalOnly(p) == MapGet(totalInventoryQuantity, p)

\* productInventoryQuantity.get(id) || 0, as addToCart and updateQuantity read it
AvailableQuantity(p) == MapGet(productInventoryQuantity, p)

\* the product cards of the grid: displayedProducts with quantity replaced by
\* productInventoryQuantity.get(product.id) || 0
filteredProducts ==
    [i \in 1..Len(displayedProducts) |->
        [id |-> displayedProducts[i],
         selling_price |-> Price(displayedProducts[i]),
         quantity |-> AvailableQuantity(displayedProducts[i])]]

\* cart.reduce((sum, item) => sum + item.price * item.quantity, 0)
RECURSIVE CartTotal(_)
CartTotal(items) ==
    IF items = <<>> THEN 0
    ELSE Head(items).price * Head(items).quantity + CartTotal(Tail(items))

total == CartTotal(cart)

----------------------------------------------------------------------------
(* Cart lines *)

Line(p, q) == [id |-> p, price |-> Price(p), quantity |-> q]

HasLine(items, p) == \E i \in 1..Len(items) : items[i].id = p

\* prevCart.find(item => item.id === id): the first line of the product
FindLine(items, p) ==
    items[CHOOSE i \in 1..Len(items) :
            /\ items[i].id = p
            /\ \A j \in 1..(i - 1) : items[j].id # p]

NoAlert == [kind |-> "none", available |-> 0, requested |-> 0]
Alert(k) == [kind |-> k, available |-> 0, requested |-> 0]
\* no response to an order submission was handled in the last step
NoCompletion == [result |-> "none", items |-> <<>>, cartId |-> NoCart]

InsufficientInventory(a, r) == [kind |-> "insufficientInventory", available |-> a, requested |-> r]

\* a stock check against an availability that is one increase behind
ExceedsAvailable_oneBehind(newQuantity, availableQuantity) == newQuantity > availableQuantity + 1

\* the stock check of addToCart and updateQuantity
ExceedsAvailable(newQuantity, availableQuantity) == newQuantity > availableQuantity

\* addToCart: the cart returned by the setCart updater, and the alert it shows
AddToCartResult(prevCart, p, availableQuantity) ==
    LET currentCartQuantity == IF HasLine(prevCart, p) THEN FindLine(prevCart, p).quantity ELSE 0
        newQuantity == currentCartQuantity + 1
    IN  IF ExceedsAvailable(newQuantity, availableQuantity)
        THEN [cart |-> prevCart, alert |-> InsufficientInventory(availableQuantity, newQuantity)]
        ELSE IF HasLine(prevCart, p)
        THEN [cart |-> [i \in 1..Len(prevCart) |->
                          IF prevCart[i].id = p
                          THEN [prevCart[i] EXCEPT !.quantity = newQuantity]
                          ELSE prevCart[i]],
              alert |-> NoAlert]
        ELSE [cart |-> Append(prevCart, Line(p, 1)), alert |-> NoAlert]

\* the line is dropped only below zero
DropsLine_belowZeroOnly(newQuantity) == newQuantity < 0

\* the line is dropped by updateQuantity
DropsLine(newQuantity) == newQuantity <= 0

\* the null that the map of updateQuantity returns for a dropped line
NullLine == [id |-> "", price |-> 0, quantity |-> 0]

\* updateQuantity that lowers a refused line to the available quantity
UpdatedLine_clampsToAvailable(item, id, delta, availableQuantity) ==
    IF item.id = id
    THEN LET newQuantity == item.quantity + delta
         IN  IF DropsLine(newQuantity) THEN NullLine
             ELSE IF delta > 0 /\ ExceedsAvailable(newQuantity, availableQuantity)
             THEN [item EXCEPT !.quantity = Max(1, availableQuantity)]
             ELSE [item EXCEPT !.quantity = newQuantity]
    ELSE item

\* updateQuantity: what the map of the setCart updater returns for one line
UpdatedLine(item, id, delta, availableQuantity) ==
    IF item.id = id
    THEN LET newQuantity == item.quantity + delta
         IN  IF DropsLine(newQuantity) THEN NullLine
             ELSE IF delta > 0 /\ ExceedsAvailable(newQuantity, availableQuantity) THEN item
             ELSE [item EXCEPT !.quantity = newQuantity]
    ELSE item

IsRejected(item, id, delta, availableQuantity) ==
    /\ item.id = id
    /\ ~DropsLine(item.quantity + delta)
    /\ delta > 0
    /\ ExceedsAvailable(item.quantity + delta, availableQuantity)

\* prevCart.map(...).filter(item => item !== null)
UpdateQuantityCart(prevCart, id, delta, availableQuantity) ==
    SelectSeq([i \in 1..Len(prevCart) |-> UpdatedLine(prevCart[i], id, delta, availableQuantity)],
              LAMBDA item : item # NullLine)

\* the alert of updateQuantity: shown for the line whose increase is refused
UpdateQuantityAlert(prevCart, id, delta, availableQuantity) ==
    IF \E i \in 1..Len(prevCart) : IsRejected(prevCart[i], id, delta, availableQuantity)
    THEN InsufficientInventory(availableQuantity, FindLine(prevCart, id).quantity + delta)
    ELSE NoAlert

\* removeFromCart: prevCart.filter(item => item.id !== id)
RemoveFromCartResult(prevCart, id) ==
    SelectSeq(prevCart, LAMBDA item : item.id # id)

----------------------------------------------------------------------------
(* The saved-cart store, part_012 ("@/lib/carts") *)

\* `Cart ${new Date().toLocaleString(...)}`, the name of a cart saved without a name
AutoName == "Cart"

\* getSavedCarts: JSON.parse of the stored array; the carts are plain strings and
\* numbers, which JSON.stringify / JSON.parse give back unchanged
getSavedCarts == store

\* a SavedCart whose id does not depend on the clock: every saved cart gets the id 1
NewSavedCart_sameId(items, name, t) ==
    [id |-> 1,
     name |-> IF name # "" THEN name ELSE AutoName,
     items |-> items,
     total |-> CartTotal(items),
     createdAt |-> t,
     updatedAt |-> t]

\* the SavedCart built by saveCart(cart, name) at clock value t (id `cart-${t}`)
NewSavedCart(items, name, t) ==
    [id |-> t,
     name |-> IF name # "" THEN name ELSE AutoName,
     items |-> items,
     total |-> CartTotal(items),
     createdAt |-> t,
     updatedAt |-> t]

\* saveCart that adds the new cart at the end (push)
StoreAfterSave_appends(items, name, t) == getSavedCarts \o <<NewSavedCart(items, name, t)>>

\* carts.unshift(savedCart)
StoreAfterSave(items, name, t) == <<NewSavedCart(items, name, t)>> \o getSavedCarts

HasCart(carts, cartId) == \E i \in 1..Len(carts) : carts[i].id = cartId

\* carts.findIndex(c => c.id === cartId), for a cart that is present
FindIndex(carts, cartId) ==
    CHOOSE i \in 1..Len(carts) :
        /\ carts[i].id = cartId
        /\ \A j \in 1..(i - 1) : carts[j].id # cartId

\* updateCart that moves the updated cart to the front
StoreAfterUpdate_movesToFront(cartId, items, name, t) ==
    LET carts == getSavedCarts
        cartIndex == FindIndex(carts, cartId)
        updatedCart == [carts[cartIndex] EXCEPT
                           !.items = items,
                           !.total = CartTotal(items),
                           !.updatedAt = t,
                           !.name = IF name # "" THEN name ELSE @]
    IN  <<updatedCart>> \o SelectSeq(carts, LAMBDA c : c.id # cartId)

\* updateCart that writes the new items and keeps the total of the last save
StoreAfterUpdate_keepsTotal(cartId, items, name, t) ==
    LET carts == getSavedCarts
        cartIndex == FindIndex(carts, cartId)
    IN  [carts EXCEPT ![cartIndex] =
            [carts[cartIndex] EXCEPT
                !.items = items,
                !.updatedAt = t,
                !.name = IF name # "" THEN name ELSE @]]

\* updateCart(cartId, cart, name), for a cart that is present: the array written back
StoreAfterUpdate(cartId, items, name, t) ==
    LET carts == getSavedCarts
        cartIndex == FindIndex(carts, cartId)
    IN  [carts EXCEPT ![cartIndex] =
            [carts[cartIndex] EXCEPT
                !.items = items,
                !.total = CartTotal(items),
                !.updatedAt = t,
                !.name = IF name # "" THEN name ELSE @]]

\* deleteCart that writes back an empty array
StoreAfterDelete_clears(cartId) == <<>>

\* deleteCart that writes the array back as it read it
StoreAfterDelete_keepsCart(cartId) == getSavedCarts

\* deleteCart(cartId): carts.filter(c => c.id !== cartId)
StoreAfterDelete(cartId) == SelectSeq(getSavedCarts, LAMBDA c : c.id # cartId)

----------------------------------------------------------------------------
(* What the page lets the user reach *)

ModalOpen == isSaveCartModalOpen \/ isLoadCartModalOpen \/ isCheckoutModalOpen

\* the controls of the page itself are covered by the overlay of an open modal
PageActive == ~ModalOpen

\* the cart panel shows its lines and buttons only for a non-empty cart (page.tsx:803)
CartPanelShown == PageActive /\ Len(cart) > 0

\* the product grid shows product cards (page.tsx:744-755)
GridShown == PageActive /\ ~isLoading /\ Len(displayedProducts) > 0

CartNames == {"", "A"}

----------------------------------------------------------------------------
(* Cart editing *)

\* addToCart(product), page.tsx:320, clicked on a product card
addToCart(p) ==
    /\ GridShown
    /\ completed' = NoCompletion
    \* p has a card: filteredProducts has the ids of displayedProducts, in the same order
    /\ \E i \in 1..Len(displayedProducts) : displayedProducts[i] = p
    /\ UNCHANGED <<savedCarts, store, currentCartId, cartName, modalVars, catalogVars,
                   pendingCheckouts, now>>
    /\ LET r == AddToCartResult(cart, p, AvailableQuantity(p))
       IN  /\ cart' = r.cart
           /\ alert' = r.alert

\* updateQuantity(id, delta), page.tsx:359, the - and + buttons of a cart line
updateQuantity(id, delta) ==
    /\ CartPanelShown
    /\ completed' = NoCompletion
    /\ HasLine(cart, id)
    /\ UNCHANGED <<savedCarts, store, currentCartId, cartName, modalVars, catalogVars,
                   pendingCheckouts, now>>
    /\ LET availableQuantity == AvailableQuantity(id)
       IN  /\ cart' = UpdateQuantityCart(cart, id, delta, availableQuantity)
           /\ alert' = UpdateQuantityAlert(cart, id, delta, availableQuantity)

\* removeFromCart that also writes the edited lines through to the saved cart
removeFromCart_writesThrough(id) ==
    /\ CartPanelShown
    /\ completed' = NoCompletion
    /\ HasLine(cart, id)
    /\ cart' = RemoveFromCartResult(cart, id)
    /\ alert' = NoAlert
    /\ IF HasCart(store, currentCartId)
       THEN /\ store' = StoreAfterUpdate(currentCartId, cart', "", now)
            /\ savedCarts' = store'
       ELSE UNCHANGED <<savedCarts, store>>
    /\ UNCHANGED <<currentCartId, cartName, modalVars, catalogVars, pendingCheckouts, now>>

\* removeFromCart(id), page.tsx:391, the trash button of a cart line
removeFromCart(id) ==
    /\ CartPanelShown
    /\ completed' = NoCompletion
    /\ HasLine(cart, id)
    /\ cart' = RemoveFromCartResult(cart, id)
    /\ alert' = NoAlert
    /\ UNCHANGED <<savedCarts, store, currentCartId, cartName, modalVars, catalogVars,
                   pendingCheckouts, now>>

\* handleNewCart, page.tsx:513; confirmed is the answer to window.confirm
handleNewCart(confirmed) ==
    /\ CartPanelShown
    /\ completed' = NoCompletion
    /\ IF Len(cart) > 0 /\ ~confirmed
       THEN UNCHANGED <<cart, currentCartId, cartName>>
       ELSE /\ cart' = <<>>
            /\ currentCartId' = NoCart
            /\ cartName' = ""
    /\ alert' = NoAlert
    /\ UNCHANGED <<savedCarts, store, modalVars, catalogVars, pendingCheckouts, now>>

\* the Clear Cart button, page.tsx:909-914
clearCart ==
    /\ CartPanelShown
    /\ completed' = NoCompletion
    /\ cart' = <<>>
    /\ currentCartId' = NoCart
    /\ cartName' = ""
    /\ alert' = NoAlert
    /\ UNCHANGED <<savedCarts, store, modalVars, catalogVars, pendingCheckouts, now>>

----------------------------------------------------------------------------
(* Saving, loading and deleting carts *)

\* a guard that lets an empty cart through
CartIsEmpty_never(items) == FALSE

\* cart.length === 0, the first check of handleSaveCart, handleConfirmSaveCart,
\* handleCheckout and handleConfirmCheckout
CartIsEmpty(items) == Len(items) = 0

\* handleSaveCart, page.tsx:473, the Save button of the cart panel
handleSaveCart ==
    /\ CartPanelShown
    /\ completed' = NoCompletion
    /\ IF CartIsEmpty(cart)
       THEN /\ alert' = Alert("cartEmpty")
            /\ UNCHANGED <<savedCarts, store, isSaveCartModalOpen, now>>
       ELSE IF currentCartId # NoCart
       THEN \* updateCart(currentCartId, cart, cartName || undefined)
            IF HasCart(getSavedCarts, currentCartId)
            THEN /\ store' = StoreAfterUpdate(currentCartId, cart, cartName, now)
                 /\ savedCarts' = store'
                 /\ UNCHANGED now
                 /\ isSaveCartModalOpen' = FALSE
                 /\ alert' = Alert("cartUpdated")
            ELSE \* updateCart returned null: nothing is done and nothing is shown
                 /\ alert' = NoAlert
                 /\ UNCHANGED <<savedCarts, store, isSaveCartModalOpen, now>>
       ELSE /\ isSaveCartModalOpen' = TRUE
            /\ alert' = NoAlert
            /\ UNCHANGED <<savedCarts, store, now>>
    /\ UNCHANGED <<cart, currentCartId, cartName, isLoadCartModalOpen, isCheckoutModalOpen,
                   catalogVars, pendingCheckouts>>

\* typing in the name field of the Save Cart modal, page.tsx:967-970
typeCartName(name) ==
    /\ isSaveCartModalOpen
    /\ completed' = NoCompletion
    /\ cartName # name
    /\ cartName' = name
    /\ alert' = NoAlert
    /\ UNCHANGED <<cart, savedCarts, store, currentCartId, modalVars, catalogVars,
                   pendingCheckouts, now>>

\* handleConfirmSaveCart, page.tsx:498, the Save button or Enter in the Save Cart modal
handleConfirmSaveCart ==
    /\ isSaveCartModalOpen
    /\ completed' = NoCompletion
    /\ IF CartIsEmpty(cart)
       THEN /\ alert' = NoAlert
            /\ UNCHANGED <<savedCarts, store, currentCartId, cartName, isSaveCartModalOpen, now>>
       ELSE /\ now < MaxClock
            /\ now' = now + 1
            /\ store' = StoreAfterSave(cart, cartName, now')
            /\ savedCarts' = store'
            /\ currentCartId' = NewSavedCart(cart, cartName, now').id
            /\ cartName' = ""
            /\ isSaveCartModalOpen' = FALSE
            /\ alert' = Alert("cartSaved")
    /\ UNCHANGED <<cart, isLoadCartModalOpen, isCheckoutModalOpen, catalogVars, pendingCheckouts>>

\* closing the Save Cart modal: the overlay (page.tsx:940) keeps the typed name,
\* the X and Cancel buttons (page.tsx:953-957, 981-985) reset it
closeSaveCartModal(resetName) ==
    /\ isSaveCartModalOpen
    /\ completed' = NoCompletion
    /\ isSaveCartModalOpen' = FALSE
    /\ cartName' = IF resetName THEN "" ELSE cartName
    /\ alert' = NoAlert
    /\ UNCHANGED <<cart, savedCarts, store, currentCartId, isLoadCartModalOpen,
                   isCheckoutModalOpen, catalogVars, pendingCheckouts, now>>

\* View All (page.tsx:627, shown with saved carts) and Load (page.tsx:892, cart panel)
openLoadCartModal ==
    /\ PageActive
    /\ completed' = NoCompletion
    /\ Len(savedCarts) > 0 \/ Len(cart) > 0
    /\ isLoadCartModalOpen' = TRUE
    /\ alert' = NoAlert
    /\ UNCHANGED <<ledgerVars, isSaveCartModalOpen, isCheckoutModalOpen, catalogVars,
                   pendingCheckouts, now>>

\* overlay and X of the Load Cart modal, page.tsx:1096, 1110
closeLoadCartModal ==
    /\ isLoadCartModalOpen
    /\ completed' = NoCompletion
    /\ isLoadCartModalOpen' = FALSE
    /\ alert' = NoAlert
    /\ UNCHANGED <<ledgerVars, isSaveCartModalOpen, isCheckoutModalOpen, catalogVars,
                   pendingCheckouts, now>>

\* a saved cart's Load and Delete buttons: the first four carts on the page
\* (page.tsx:634), all of them in the Load Cart modal (page.tsx:1124)
SavedCartShown(i) ==
    /\ i \in 1..Len(savedCarts)
    /\ \/ isLoadCartModalOpen
       \/ PageActive /\ i <= 4

\* the cart that handleLoadCart puts in place
LoadedCart(savedCart) == savedCart.items

\* handleLoadCart(savedCarts[i]), page.tsx:524
handleLoadCart(i, confirmed) ==
    /\ SavedCartShown(i)
    /\ completed' = NoCompletion
    /\ IF Len(cart) > 0 /\ currentCartId = NoCart /\ ~confirmed
       THEN UNCHANGED <<cart, currentCartId, cartName, isLoadCartModalOpen>>
       ELSE /\ cart' = LoadedCart(savedCarts[i])
            /\ currentCartId' = savedCarts[i].id
            /\ cartName' = savedCarts[i].name
            /\ isLoadCartModalOpen' = FALSE
    /\ alert' = NoAlert
    /\ UNCHANGED <<savedCarts, store, isSaveCartModalOpen, isCheckoutModalOpen, catalogVars,
                   pendingCheckouts, now>>

\* handleDeleteCart that deletes the cart from the store and keeps the list it shows
handleDeleteCart_keepsList(i, confirmed) ==
    /\ SavedCartShown(i)
    /\ completed' = NoCompletion
    /\ IF confirmed
       THEN /\ store' = StoreAfterDelete(savedCarts[i].id)
            /\ UNCHANGED savedCarts
            /\ IF currentCartId = savedCarts[i].id
               THEN currentCartId' = NoCart /\ cartName' = ""
               ELSE UNCHANGED <<currentCartId, cartName>>
       ELSE UNCHANGED <<store, savedCarts, currentCartId, cartName>>
    /\ alert' = NoAlert
    /\ UNCHANGED <<cart, modalVars, catalogVars, pendingCheckouts, now>>

\* handleDeleteCart(savedCarts[i].id), page.tsx:536
handleDeleteCart(i, confirmed) ==
    /\ SavedCartShown(i)
    /\ completed' = NoCompletion
    /\ IF confirmed
       THEN /\ store' = StoreAfterDelete(savedCarts[i].id)
            /\ savedCarts' = store'
            /\ IF currentCartId = savedCarts[i].id
               THEN currentCartId' = NoCart /\ cartName' = ""
               ELSE UNCHANGED <<currentCartId, cartName>>
       ELSE UNCHANGED <<store, savedCarts, currentCartId, cartName>>
    /\ alert' = NoAlert
    /\ UNCHANGED <<cart, modalVars, catalogVars, pendingCheckouts, now>>

\* the store is the localStorage of the origin, which every tab of the page shares:
\* a saved cart is deleted by deleteCart (part_012:90-102) running in another tab;
\* this tab keeps the savedCarts it read last
deletedElsewhere(i) ==
    /\ i \in 1..Len(store)
    /\ completed' = NoCompletion
    /\ store' = SubSeq(store, 1, i - 1) \o SubSeq(store, i + 1, Len(store))
    /\ alert' = NoAlert
    /\ UNCHANGED <<cart, savedCarts, currentCartId, cartName, modalVars, catalogVars,
                   pendingCheckouts, now>>

----------------------------------------------------------------------------
(* Checkout *)

\* handleCheckout, page.tsx:547
handleCheckout ==
    /\ CartPanelShown
    /\ completed' = NoCompletion
    /\ isCheckoutModalOpen' = (IF CartIsEmpty(cart) THEN isCheckoutModalOpen ELSE TRUE)
    /\ alert' = NoAlert
    /\ UNCHANGED <<ledgerVars, isSaveCartModalOpen, isLoadCartModalOpen, catalogVars,
                   pendingCheckouts, now>>

\* overlay, X and Cancel of the Checkout modal, page.tsx:1012, 1025-1029, 1065-1069
closeCheckoutModal ==
    /\ isCheckoutModalOpen
    /\ completed' = NoCompletion
    /\ isCheckoutModalOpen' = FALSE
    /\ alert' = NoAlert
    /\ UNCHANGED <<ledgerVars, isSaveCartModalOpen, isLoadCartModalOpen, catalogVars,
                   pendingCheckouts, now>>

\* what handleConfirmCheckout sends and what it keeps for its continuation:
\* the cart, total and currentCartId of the render it was called in
CheckoutRequest == [items |-> cart, grand_total |-> total, cartId |-> currentCartId]

\* handleConfirmCheckout up to its await, page.tsx:552-573
handleConfirmCheckout ==
    /\ isCheckoutModalOpen
    /\ completed' = NoCompletion
    /\ Len(pendingCheckouts) < MaxCheckouts
    /\ pendingCheckouts' = IF CartIsEmpty(cart)
                           THEN pendingCheckouts
                           ELSE Append(pendingCheckouts, CheckoutRequest)
    /\ alert' = NoAlert
    /\ UNCHANGED <<ledgerVars, modalVars, catalogVars, now>>

RemoveAt(seq, i) == SubSeq(seq, 1, i - 1) \o SubSeq(seq, i + 1, Len(seq))

\* the cart that is left after the order was created, page.tsx:599
CartAfterCheckout(request) == <<>>

\* handleConfirmCheckout after an OK response, page.tsx:580-601
checkoutSucceeded(i) ==
    /\ i \in 1..Len(pendingCheckouts)
    /\ LET request == pendingCheckouts[i]
       IN  /\ IF request.cartId # NoCart
              THEN /\ store' = StoreAfterDelete(request.cartId)
                   /\ savedCarts' = store'
                   /\ currentCartId' = NoCart
                   /\ cartName' = ""
              ELSE UNCHANGED <<store, savedCarts, currentCartId, cartName>>
           /\ cart' = CartAfterCheckout(request)
           /\ completed' = [result |-> "ok", items |-> request.items, cartId |-> request.cartId]
    /\ isCheckoutModalOpen' = FALSE
    /\ pendingCheckouts' = RemoveAt(pendingCheckouts, i)
    /\ alert' = Alert("orderCreated")
    /\ UNCHANGED <<isSaveCartModalOpen, isLoadCartModalOpen, catalogVars, now>>

\* a failed submission that empties the cart like a successful one
CartAfterFailure_clears(request) == <<>>

\* the cart that is left after a failed submission, page.tsx:605-614
CartAfterFailure(request) == cart

\* handleConfirmCheckout after a network error or a non-OK response, page.tsx:575-578, 605-614
checkoutFailed(i) ==
    /\ i \in 1..Len(pendingCheckouts)
    /\ LET request == pendingCheckouts[i]
       IN  /\ cart' = CartAfterFailure(request)
           /\ completed' = [result |-> "failed", items |-> request.items, cartId |-> request.cartId]
    /\ pendingCheckouts' = RemoveAt(pendingCheckouts, i)
    /\ alert' = Alert("orderFailed")
    /\ UNCHANGED <<savedCarts, store, currentCartId, cartName, modalVars, catalogVars, now>>

----------------------------------------------------------------------------
(* The inventory feed: search and paging *)

\* what the user can have typed in the search box, and String.prototype.trim of it
SearchInputs == {"", " ", "a", "a ", "b"}
Trim(input) ==
    IF input = " " THEN ""
    ELSE IF input = "a " THEN "a"
    ELSE input

\* the productMap of fetchInventory / loadMoreInventory: the products shown so far,
\* then one entry for every product of the new records that is not there yet
\* (the summed quantity of an entry is replaced by filteredProducts and is not kept)
RECURSIVE GroupByProduct(_, _)
GroupByProduct(shown, items) ==
    IF items = <<>> THEN shown
    ELSE GroupByProduct(IF \E i \in 1..Len(shown) : shown[i] = Head(items).product
                           THEN shown
                           ELSE Append(shown, Head(items).product),
                        Tail(items))

FirstPageRequest(q) == [kind |-> "first", query |-> q, offset |-> 0, displayed |-> <<>>]

\* what loadMoreInventory sends and keeps: the offset ref, and the searchQuery and
\* displayedProducts of the render it was called in
MoreRequest == [kind |-> "more", query |-> searchQuery, offset |-> inventoryOffsetRef,
                displayed |-> displayedProducts]

\* handleSearch, page.tsx:399, followed by the effect of page.tsx:77-148, which runs
\* fetchInventory only when searchQuery has changed
handleSearch(input) ==
    /\ PageActive
    /\ completed' = NoCompletion
    /\ Len(pendingFetches) < MaxFetches
    /\ displayedProducts' = <<>>
    /\ inventory' = <<>>
    /\ inventoryOffsetRef' = 0
    /\ hasMoreInventoryRef' = TRUE
    /\ searchQuery' = Trim(input)
    /\ IF searchQuery' = searchQuery
       THEN UNCHANGED <<isLoading, pendingFetches>>
       ELSE IF searchQuery' = ""
       THEN isLoading' = FALSE /\ UNCHANGED pendingFetches
       ELSE /\ isLoading' = TRUE
            /\ pendingFetches' = Append(pendingFetches, FirstPageRequest(searchQuery'))
    /\ alert' = NoAlert
    /\ UNCHANGED <<ledgerVars, modalVars, isLoadingMoreRef, pendingCheckouts, now>>

\* fetchInventory after an OK response, page.tsx:103-139, 142-144
firstPageLoaded(i) ==
    /\ i \in 1..Len(pendingFetches)
    /\ completed' = NoCompletion
    /\ pendingFetches[i].kind = "first"
    /\ LET inventoryData == Page(pendingFetches[i].query, 0)
       IN  /\ inventory' = inventoryData
           /\ inventoryOffsetRef' = Len(inventoryData)
           /\ hasMoreInventoryRef' = (Len(inventoryData) = LIMIT)
           /\ displayedProducts' = GroupByProduct(<<>>, inventoryData)
    /\ isLoading' = FALSE
    /\ pendingFetches' = RemoveAt(pendingFetches, i)
    /\ alert' = NoAlert
    /\ UNCHANGED <<ledgerVars, modalVars, searchQuery, isLoadingMoreRef, pendingCheckouts, now>>

\* fetchInventory after a network error or a non-OK response, page.tsx:140-144
firstPageFailed(i) ==
    /\ i \in 1..Len(pendingFetches)
    /\ completed' = NoCompletion
    /\ pendingFetches[i].kind = "first"
    /\ isLoading' = FALSE
    /\ pendingFetches' = RemoveAt(pendingFetches, i)
    /\ alert' = NoAlert
    /\ UNCHANGED <<ledgerVars, modalVars, inventory, displayedProducts, searchQuery,
                   hasMoreInventoryRef, isLoadingMoreRef, inventoryOffsetRef,
                   pendingCheckouts, now>>

\* loadMoreInventory up to its await, page.tsx:151-173, called by the onScroll of the
\* product grid (page.tsx:735-741)
loadMoreInventory ==
    /\ GridShown
    /\ completed' = NoCompletion
    /\ Len(pendingFetches) < MaxFetches
    /\ ~isLoadingMoreRef /\ hasMoreInventoryRef
    /\ isLoadingMoreRef' = TRUE
    /\ pendingFetches' = Append(pendingFetches, MoreRequest)
    /\ alert' = NoAlert
    /\ UNCHANGED <<ledgerVars, modalVars, inventory, displayedProducts, searchQuery, isLoading,
                   hasMoreInventoryRef, inventoryOffsetRef, pendingCheckouts, now>>

\* loadMoreInventory after an OK response, page.tsx:175-222, 225-228
morePageLoaded(i) ==
    /\ i \in 1..Len(pendingFetches)
    /\ completed' = NoCompletion
    /\ pendingFetches[i].kind = "more"
    /\ LET inventoryData == Page(pendingFetches[i].query, pendingFetches[i].offset)
       IN  IF Len(inventoryData) > 0
           THEN /\ inventory' = inventory \o inventoryData
                /\ inventoryOffsetRef' = inventoryOffsetRef + Len(inventoryData)
                /\ hasMoreInventoryRef' = (Len(inventoryData) = LIMIT)
                /\ displayedProducts' = GroupByProduct(pendingFetches[i].displayed, inventoryData)
           ELSE /\ hasMoreInventoryRef' = FALSE
                /\ UNCHANGED <<inventory, inventoryOffsetRef, displayedProducts>>
    /\ isLoadingMoreRef' = FALSE
    /\ pendingFetches' = RemoveAt(pendingFetches, i)
    /\ alert' = NoAlert
    /\ UNCHANGED <<ledgerVars, modalVars, searchQuery, isLoading, pendingCheckouts, now>>

\* loadMoreInventory after a network error or a non-OK response, page.tsx:223-228
morePageFailed(i) ==
    /\ i \in 1..Len(pendingFetches)
    /\ completed' = NoCompletion
    /\ pendingFetches[i].kind = "more"
    /\ isLoadingMoreRef' = FALSE
    /\ pendingFetches' = RemoveAt(pendingFetches, i)
    /\ alert' = NoAlert
    /\ UNCHANGED <<ledgerVars, modalVars, inventory, displayedProducts, searchQuery, isLoading,
                   hasMoreInventoryRef, inventoryOffsetRef, pendingCheckouts, now>>

----------------------------------------------------------------------------
(* Specifications *)

\* the page after mounting in a browser whose store holds no saved cart: the mount
\* effects have read the store (page.tsx:71-74) and, with an empty search query,
\* cleared the inventory (page.tsx:80-85)
Init ==
    /\ cart = <<>>
    /\ savedCarts = <<>>
    /\ store = <<>>
    /\ currentCartId = NoCart
    /\ cartName = ""
    /\ isSaveCartModalOpen = FALSE
    /\ isLoadCartModalOpen = FALSE
    /\ isCheckoutModalOpen = FALSE
    /\ inventory = <<>>
    /\ displayedProducts = <<>>
    /\ searchQuery = ""
    /\ isLoading = FALSE
    /\ hasMoreInventoryRef = TRUE
    /\ isLoadingMoreRef = FALSE
    /\ inventoryOffsetRef = 0
    /\ pendingFetches = <<>>
    /\ pendingCheckouts = <<>>
    /\ now = 0
    /\ alert = NoAlert
    /\ completed = NoCompletion

EditCart ==
    \/ \E p \in Products : addToCart(p)
    \/ \E p \in Products, delta \in {-1, 1} : updateQuantity(p, delta)
    \/ \E p \in Products : removeFromCart(p)
    \/ \E confirmed \in BOOLEAN : handleNewCart(confirmed)
    \/ clearCart

ManageCarts ==
    \/ handleSaveCart
    \/ \E name \in CartNames : typeCartName(name)
    \/ handleConfirmSaveCart
    \/ \E resetName \in BOOLEAN : closeSaveCartModal(resetName)
    \/ openLoadCartModal
    \/ closeLoadCartModal
    \/ \E i \in 1..Len(savedCarts), confirmed \in BOOLEAN : handleLoadCart(i, confirmed)
    \/ \E i \in 1..Len(savedCarts), confirmed \in BOOLEAN : handleDeleteCart(i, confirmed)

Checkout ==
    \/ handleCheckout
    \/ closeCheckoutModal
    \/ handleConfirmCheckout
    \/ \E i \in 1..Len(pendingCheckouts) : checkoutSucceeded(i)
    \/ \E i \in 1..Len(pendingCheckouts) : checkoutFailed(i)

Catalog ==
    \/ \E input \in SearchInputs : handleSearch(input)
    \/ \E i \in 1..Len(pendingFetches) : firstPageLoaded(i)
    \/ \E i \in 1..Len(pendingFetches) : firstPageFailed(i)
    \/ loadMoreInventory
    \/ \E i \in 1..Len(pendingFetches) : morePageLoaded(i)
    \/ \E i \in 1..Len(pendingFetches) : morePageFailed(i)

SharedStore ==
    \E i \in 1..Len(store) : deletedElsewhere(i)

Next == EditCart \/ ManageCarts \/ Checkout \/ Catalog \/ SharedStore

Spec == Init /\ [][Next]_vars

\* the page with an empty cart after the search for q was answered and every
\* further page was loaded: the whole stock the backend holds for q is loaded
Loaded(q) ==
    /\ cart = <<>>
    /\ savedCarts = <<>>
    /\ store = <<>>
    /\ currentCartId = NoCart
    /\ cartName = ""
    /\ isSaveCartModalOpen = FALSE
    /\ isLoadCartModalOpen = FALSE
    /\ isCheckoutModalOpen = FALSE
    /\ inventory = Backend(q)
    /\ displayedProducts = GroupByProduct(<<>>, Backend(q))
    /\ searchQuery = q
    /\ isLoading = FALSE
    /\ hasMoreInventoryRef = FALSE
    /\ isLoadingMoreRef = FALSE
    /\ inventoryOffsetRef = Len(Backend(q))
    /\ pendingFetches = <<>>
    /\ pendingCheckouts = <<>>
    /\ now = 0
    /\ alert = NoAlert
    /\ completed = NoCompletion

InitLedger == Loaded("a")

NextLedger == EditCart \/ ManageCarts

\* the ledger with the backend stock held constant and fully loaded
SpecLedger == InitLedger /\ [][NextLedger]_vars

InitCheckout == Loaded("b")

NextCheckout == EditCart \/ ManageCarts \/ Checkout

\* the ledger and the order submissions, with the stock of the search "b" loaded
SpecCheckout == InitCheckout /\ [][NextCheckout]_vars

NextShared == EditCart \/ ManageCarts \/ SharedStore

\* the ledger in one tab while another tab deletes saved carts from the shared store
SpecShared == InitLedger /\ [][NextShared]_vars

\* the ledger while the stock is being searched and paged in; the cashier waits for
\* the answer to a search before searching again, and carts are saved under the
\* name the store gives them
NextStock ==
    \/ \E p \in Products : addToCart(p)
    \/ \E p \in Products, delta \in {-1, 1} : updateQuantity(p, delta)
    \/ clearCart
    \/ handleSaveCart
    \/ handleConfirmSaveCart
    \/ \E i \in 1..Len(savedCarts), confirmed \in BOOLEAN : handleLoadCart(i, confirmed)
    \/ \E input \in SearchInputs : pendingFetches = <<>> /\ handleSearch(input)
    \/ \E i \in 1..Len(pendingFetches) : firstPageLoaded(i)
    \/ loadMoreInventory
    \/ \E i \in 1..Len(pendingFetches) : morePageLoaded(i)

SpecStock == Init /\ [][NextStock]_vars

----------------------------------------------------------------------------
(* Reservation accounting, stated without the maps of the page *)

RECURSIVE SumOver(_, _)
SumOver(S, f) ==
    IF S = {} THEN 0
    ELSE LET x == CHOOSE y \in S : TRUE
         IN  f[x] + SumOver(S \ {x}, f)

\* S(P): the quantities of the loaded stock records of P that are not expired and
\* have a quantity > 0
SellableStock(p) ==
    SumOver({i \in 1..Len(inventory) :
                /\ inventory[i].product = p
                /\ inventory[i].expiry >= 0
                /\ inventory[i].quantity > 0},
            [i \in 1..Len(inventory) |-> inventory[i].quantity])

\* the quantity of P in a list of cart lines
QuantityIn(items, p) ==
    SumOver({i \in 1..Len(items) : items[i].id = p},
            [i \in 1..Len(items) |-> items[i].quantity])

\* O(P): the quantity of P in the saved carts other than the current one
OtherReserved(p) ==
    SumOver({i \in 1..Len(savedCarts) : savedCarts[i].id # currentCartId},
            [i \in 1..Len(savedCarts) |-> QuantityIn(savedCarts[i].items, p)])

\* L(P): the quantity of P in the live cart
LiveReserved(p) == QuantityIn(cart, p)

ExpectedAvailable(p) == Max(0, SellableStock(p) - OtherReserved(p) - LiveReserved(p))

\* C1: in every state and for every product P, the available quantity the stock
\* checks read, and the quantity shown on P's product card, is
\* max(0, S(P) - O(P) - L(P)).
C1_AvailableIsStockMinusReservations ==
    /\ \A p \in Products : AvailableQuantity(p) = ExpectedAvailable(p)
    /\ \A i \in 1..Len(filteredProducts) :
          filteredProducts[i].quantity = ExpectedAvailable(filteredProducts[i].id)

\* a cart was saved and is the current one, another saved cart and the live cart both
\* hold a product of which several records are loaded, and some of it is still free
C1_Witness ==
    \E p \in Products :
        /\ currentCartId # NoCart
        /\ HasCart(savedCarts, currentCartId)
        /\ QuantityIn(savedCarts[FindIndex(savedCarts, currentCartId)].items, p) > 0
        /\ OtherReserved(p) > 0
        /\ LiveReserved(p) > 0
        /\ Cardinality({i \in 1..Len(inventory) : inventory[i].product = p}) > 1
        /\ AvailableQuantity(p) > 0
        /\ \E i \in 1..Len(filteredProducts) : filteredProducts[i].id = p

\* C5: for every product P and in every state, the available quantity is an
\* integer >= 0, also when the reservations exceed the loaded stock and when no stock
\* record of P is loaded.
C5_AvailableNeverNegative ==
    /\ \A p \in Products : AvailableQuantity(p) \in Nat
    /\ \A p \in DOMAIN productInventoryQuantity : productInventoryQuantity[p] \in Nat
    /\ \A i \in 1..Len(filteredProducts) : filteredProducts[i].quantity \in Nat

\* one product is reserved beyond its loaded stock, another is reserved while none
\* of its stock records is loaded
C5_Witness ==
    \E p, r \in Products :
        /\ SellableStock(p) > 0
        /\ OtherReserved(p) + LiveReserved(p) > SellableStock(p)
        /\ \A i \in 1..Len(inventory) : inventory[i].product # r
        /\ LiveReserved(r) > 0
        /\ AvailableQuantity(p) = 0 /\ AvailableQuantity(r) = 0

----------------------------------------------------------------------------
(* The ledger with the stock fully loaded *)

\* the saved cart with the given id
SavedCartOf(cartId) == savedCarts[FindIndex(savedCarts, cartId)]

\* C2: right after loadCart(X), every product that no other saved cart holds has
\* available = max(0, sellable stock - its quantity in X); and a loadCart(X) done
\* with an empty live cart leaves the available quantity of every product unchanged.
C2_LoadCountsCartOnce ==
    [][\A i \in 1..Len(savedCarts) :
          handleLoadCart(i, TRUE) =>
             /\ \A p \in Products :
                   (\A j \in 1..Len(savedCarts) :
                       j # i => QuantityIn(savedCarts[j].items, p) = 0)
                   => AvailableQuantity(p)' =
                         Max(0, SellableStock(p) - QuantityIn(savedCarts[i].items, p))
             /\ cart = <<>> =>
                   \A p \in Products : AvailableQuantity(p)' = AvailableQuantity(p)]_vars

\* C3: with the whole stock loaded, the quantity of a product in the saved carts
\* other than the current one plus its quantity in the live cart never exceeds the
\* sellable stock of the product.
C3_NoOverCommit ==
    \A p \in Products : OtherReserved(p) + LiveReserved(p) <= SellableStock(p)

\* the stock of a product is used up by a parked cart and the live cart together,
\* and the step before was a refused increase
C3_Witness ==
    \E p \in Products :
        /\ OtherReserved(p) > 0
        /\ LiveReserved(p) > 0
        /\ OtherReserved(p) + LiveReserved(p) = SellableStock(p)
        /\ alert.kind = "insufficientInventory"

\* C4: for a product that no saved cart holds, addLine succeeds as long as the
\* line is below the sellable stock N, and the call made with the line at N is
\* refused, reporting available 0 and requested N + 1.
C4_AddsSucceedUpToStock ==
    [][\A p \in Products :
          (/\ addToCart(p)
           /\ \A i \in 1..Len(savedCarts) : QuantityIn(savedCarts[i].items, p) = 0)
          => IF LiveReserved(p) < SellableStock(p)
             THEN /\ QuantityIn(cart', p) = LiveReserved(p) + 1
                  /\ alert' = NoAlert
             ELSE /\ cart' = cart
                  /\ alert' = InsufficientInventory(0, LiveReserved(p) + 1)]_vars

\* C6: an addLine or an increase that would take the line above the available
\* quantity is refused with the available and requested counts, and leaves the
\* live cart, the saved carts, the store and currentCartId as they were.
C6_RejectWithoutMutation ==
    [][\A p \in Products :
          LET available == AvailableQuantity(p)
              requested == QuantityIn(cart, p) + 1
          IN  (/\ addToCart(p) \/ updateQuantity(p, 1)
               /\ requested > available)
              => /\ alert' = InsufficientInventory(available, requested)
                 /\ cart' = cart
                 /\ savedCarts' = savedCarts
                 /\ store' = store
                 /\ currentCartId' = currentCartId]_vars

\* an increase was refused on a cart that was loaded from the saved carts and still
\* has the lines it was saved with
C6_Witness ==
    /\ alert.kind = "insufficientInventory"
    /\ alert.requested > alert.available
    /\ currentCartId # NoCart
    /\ cartName # ""
    /\ HasCart(savedCarts, currentCartId)
    /\ cart = SavedCartOf(currentCartId).items

AllLinesPositive(items) == \A i \in 1..Len(items) : items[i].quantity >= 1

\* C7: every line of the live cart and of every saved cart has a quantity >= 1, and
\* an adjustQuantity whose result would be 0 or less leaves the cart without the line.
C7_QuantityFloor ==
    /\ [](/\ AllLinesPositive(cart)
          /\ \A i \in 1..Len(savedCarts) : AllLinesPositive(savedCarts[i].items)
          /\ \A i \in 1..Len(store) : AllLinesPositive(store[i].items))
    /\ [][\A p \in Products, delta \in {-1, 1} :
             (updateQuantity(p, delta) /\ QuantityIn(cart, p) + delta <= 0)
             => ~HasLine(cart', p)]_vars

\* the live cart lacks a line that the current cart was saved with at quantity 1,
\* and keeps another line
C7_Witness ==
    /\ currentCartId # NoCart
    /\ HasCart(savedCarts, currentCartId)
    /\ Len(cart) > 0
    /\ \E p \in Products :
          /\ QuantityIn(SavedCartOf(currentCartId).items, p) = 1
          /\ ~HasLine(cart, p)

----------------------------------------------------------------------------
(* Order submissions *)

\* C8: when the submission of an order that was confirmed with currentCartId = X is
\* answered with success, neither savedCarts nor the store holds a cart with id X
\* afterwards, and the live cart is empty.
C8_CheckoutReleasesReservation ==
    (completed.result = "ok" /\ completed.cartId # NoCart)
    => /\ ~HasCart(savedCarts, completed.cartId)
       /\ ~HasCart(store, completed.cartId)
       /\ ~HasCart(getSavedCarts, completed.cartId)
       /\ cart = <<>>

\* the order of a saved cart was created while another cart stays parked
C8_Witness ==
    /\ completed.result = "ok"
    /\ completed.cartId # NoCart
    /\ completed.items # <<>>
    /\ Len(savedCarts) > 0
    /\ alert.kind = "orderCreated"

\* C9: after every successful completion of an order submission the live cart is
\* empty and currentCartId is null, whatever was done between the submission and
\* the arrival of its answer.
C9_CheckoutEndsEmptyAndDetached ==
    completed.result = "ok" => (cart = <<>> /\ currentCartId = NoCart)

\* C10: a failed order submission leaves the live cart, currentCartId, savedCarts
\* and the store as they were, deletes no saved cart, keeps the checkout dialog as it
\* was, and a cart that still is the submitted one can be submitted again as the
\* same order.
C10_FailedCheckoutPreservesState ==
    [][\A i \in 1..Len(pendingCheckouts) :
          checkoutFailed(i) =>
             /\ cart' = cart
             /\ currentCartId' = currentCartId
             /\ savedCarts' = savedCarts
             /\ store' = store
             /\ isCheckoutModalOpen' = isCheckoutModalOpen
             /\ CheckoutRequest = pendingCheckouts[i] => CheckoutRequest' = pendingCheckouts[i]]_vars

\* the submission of a saved cart failed: the dialog is still open on the same
\* cart, the saved cart is still there, and nothing else is in flight
C10_Witness ==
    /\ completed.result = "failed"
    /\ alert.kind = "orderFailed"
    /\ completed.cartId # NoCart
    /\ currentCartId = completed.cartId
    /\ HasCart(savedCarts, completed.cartId)
    /\ HasCart(store, completed.cartId)
    /\ cart = completed.items
    /\ cart # <<>>
    /\ isCheckoutModalOpen
    /\ pendingCheckouts = <<>>

----------------------------------------------------------------------------
(* Deleting, saving and loading carts *)

\* C11: deleting the saved cart that is the current one removes it from savedCarts
\* and the store, sets currentCartId to null and empties the live cart.
C11_DeleteCurrentCartEmptiesCart ==
    [][\A i \in 1..Len(savedCarts) :
          (handleDeleteCart(i, TRUE) /\ savedCarts[i].id = currentCartId)
          => /\ ~HasCart(savedCarts', savedCarts[i].id)
             /\ ~HasCart(store', savedCarts[i].id)
             /\ currentCartId' = NoCart
             /\ cart' = <<>>]_vars

\* the total of a list of cart lines, summed line by line
LinesTotal(items) ==
    SumOver(1..Len(items), [i \in 1..Len(items) |-> items[i].price * items[i].quantity])

\* C12: in every state, every saved cart of the store (and of savedCarts) has a
\* total equal to the sum of price * quantity over its own items, after a first
\* save and after every update.
C12_StoredTotalsNeverDrift ==
    /\ \A i \in 1..Len(store) : store[i].total = LinesTotal(store[i].items)
    /\ \A i \in 1..Len(savedCarts) : savedCarts[i].total = LinesTotal(savedCarts[i].items)

\* a saved cart was just updated with a cart of two lines, while another cart that
\* was saved once is parked
C12_Witness ==
    /\ alert.kind = "cartUpdated"
    /\ Len(store) = 2
    /\ HasCart(store, currentCartId)
    /\ SavedCartOf(currentCartId).items = cart
    /\ Len(cart) = 2
    /\ SavedCartOf(currentCartId).total = 8

\* C13: saving a non-empty cart while currentCartId is null creates exactly one new
\* saved cart: its id differs from the id of every saved cart already present, its
\* items are the lines of the live cart, its createdAt equals its updatedAt, it is
\* placed at the front of savedCarts (and of the store), the carts that were there
\* keep their content and order, and currentCartId becomes the new id.
C13_FirstSaveAddsOneCartInFront ==
    [][(handleConfirmSaveCart /\ currentCartId = NoCart /\ cart # <<>>)
       => /\ Len(savedCarts') = Len(savedCarts) + 1
          /\ \A j \in 1..Len(savedCarts) : savedCarts'[1].id # savedCarts[j].id
          /\ savedCarts'[1].items = cart
          /\ savedCarts'[1].createdAt = savedCarts'[1].updatedAt
          /\ \A j \in 1..Len(savedCarts) : savedCarts'[j + 1] = savedCarts[j]
          /\ currentCartId' = savedCarts'[1].id
          /\ Len(store') = Len(store) + 1
          /\ store'[1] = savedCarts'[1]
          /\ \A j \in 1..Len(store) : store'[j + 1] = store[j]]_vars

\* a second cart was just saved in front of the one that was saved before
C13_Witness ==
    /\ alert.kind = "cartSaved"
    /\ Len(savedCarts) = 2
    /\ currentCartId = savedCarts[1].id
    /\ savedCarts[1].items = cart
    /\ savedCarts[1].id # savedCarts[2].id
    /\ savedCarts[2].createdAt < savedCarts[1].createdAt

\* C14: saving while currentCartId = X updates the entry X in place: its id,
\* createdAt and position are kept, its items become the lines of the live cart, its
\* name changes only when a non-empty name is supplied, the number of saved carts
\* and every other saved cart are unchanged, and currentCartId stays X.
C14_SaveUpdatesInPlace ==
    [][(handleSaveCart /\ currentCartId # NoCart /\ cart # <<>>)
       => /\ HasCart(savedCarts, currentCartId)
          /\ LET k == FindIndex(savedCarts, currentCartId)
             IN  /\ Len(savedCarts') = Len(savedCarts)
                 /\ savedCarts'[k].id = currentCartId
                 /\ savedCarts'[k].createdAt = savedCarts[k].createdAt
                 /\ savedCarts'[k].items = cart
                 /\ savedCarts'[k].name = (IF cartName # "" THEN cartName ELSE savedCarts[k].name)
                 /\ \A j \in 1..Len(savedCarts) : j # k => savedCarts'[j] = savedCarts[j]
                 /\ store' = savedCarts'
          /\ currentCartId' = currentCartId]_vars

\* the older of two saved carts was loaded, edited and saved again: it is still the
\* second entry
C14_Witness ==
    /\ alert.kind = "cartUpdated"
    /\ Len(savedCarts) = 2
    /\ savedCarts[2].id = currentCartId
    /\ savedCarts[2].items = cart
    /\ savedCarts[2].createdAt < savedCarts[1].createdAt
    /\ Len(cart) = 2

----------------------------------------------------------------------------
(* Empty carts *)

NoEmptyCartIn(carts) == \A i \in 1..Len(carts) : carts[i].items # <<>>

\* C15: saving and checking out while the live cart has no line change nothing
\* (cart, savedCarts, the store, currentCartId and the submissions in flight stay as
\* they are); no saved cart with an empty item list exists and no order with an empty
\* item list is submitted.
C15_EmptyCartNotSavedNorSubmitted ==
    /\ [](/\ NoEmptyCartIn(store)
          /\ NoEmptyCartIn(savedCarts)
          /\ NoEmptyCartIn(pendingCheckouts)
          /\ completed.result # "none" => completed.items # <<>>)
    /\ [][(/\ cart = <<>>
           /\ \/ handleSaveCart
              \/ handleConfirmSaveCart
              \/ handleCheckout
              \/ handleConfirmCheckout)
          => UNCHANGED <<cart, savedCarts, store, currentCartId, pendingCheckouts>>]_vars

\* the Save Cart dialog is open on a cart that a finished checkout has emptied, and
\* a step was taken in the dialog since
C15_Witness ==
    /\ cart = <<>>
    /\ isSaveCartModalOpen
    /\ completed = NoCompletion
    /\ alert = NoAlert
    /\ cartName = ""
    /\ pendingCheckouts = <<>>
    /\ store = <<>>

----------------------------------------------------------------------------
(* deleteCart *)

\* the ids a saved cart can have
CartIds == 1..MaxClock

\* the carts of a list whose id is not x, in the order of the list
RECURSIVE Without(_, _)
Without(carts, x) ==
    IF carts = <<>> THEN <<>>
    ELSE (IF Head(carts).id = x THEN <<>> ELSE <<Head(carts)>>) \o Without(Tail(carts), x)

\* a step that calls deleteCart(x): the Delete button of the saved cart x, or the
\* success of an order that was confirmed with currentCartId = x
DeleteCartStep(x) ==
    \/ \E i \in 1..Len(savedCarts) : savedCarts[i].id = x /\ handleDeleteCart(i, TRUE)
    \/ \E i \in 1..Len(pendingCheckouts) : pendingCheckouts[i].cartId = x /\ checkoutSucceeded(i)

\* C16: deleteCart(x) removes exactly the saved carts with id x from savedCarts and
\* from the store and leaves the other saved carts as they were, in the same order;
\* deleting an id that is absent changes nothing, and deleting x once more after the
\* step gives the store the step left.
C16_DeleteRemovesExactlyThatCart ==
    [][\A x \in CartIds :
          DeleteCartStep(x)
          => /\ store' = Without(store, x)
             /\ savedCarts' = Without(savedCarts, x)
             /\ ~HasCart(store, x) => (store' = store /\ savedCarts' = savedCarts)
             /\ StoreAfterDelete(x)' = store']_vars

\* the order of a saved cart was created and its cart deleted, while a cart that
\* was saved later is still parked
C16_Witness ==
    /\ completed.result = "ok"
    /\ completed.cartId # NoCart
    /\ Len(store) = 1
    /\ store[1].id > completed.cartId
    /\ savedCarts = store

----------------------------------------------------------------------------
(* The shared store *)

\* C17: loading a saved cart whose id has no entry in the store (it was deleted
\* through the shared store after savedCarts was read) fails with CartNotFound and
\* leaves the cart and currentCartId as they were, so that currentCartId is never set
\* to an id without an entry in the store; and a later save of the current cart never
\* ends without telling the cashier.
C17_LoadOfMissingCartFails ==
    [][/\ \A i \in 1..Len(savedCarts) :
             (handleLoadCart(i, TRUE) /\ ~HasCart(store, savedCarts[i].id))
             => /\ cart' = cart
                /\ currentCartId' = currentCartId
                /\ alert'.kind = "cartNotFound"
       /\ (handleSaveCart /\ cart # <<>> /\ currentCartId # NoCart)
             => alert'.kind # "none"]_vars

----------------------------------------------------------------------------
(* The order of cart edits *)

\* the lines of the products other than p are as they were
OtherLinesKept(p) ==
    \A r \in Products : r # p => QuantityIn(cart', r) = QuantityIn(cart, r)

\* max(0, S - O - L) for the live cart `items`
AvailableWith(p, items) ==
    Max(0, SellableStock(p) - OtherReserved(p) - QuantityIn(items, p))

\* C18: every addLine, adjustQuantity and removeLine acts on the cart the previous
\* call left, and its stock check reads the availability that results from that
\* cart: in every state the availability a check reads is max(0, S - O - L) of the
\* cart of that state, an increase is accepted exactly when the new line quantity is
\* within it, and an accepted increase lowers it by one for the next check, so two
\* increases in a row are never both accepted on the same availability value.
C18_ChecksFollowPreviousCall ==
    /\ [](\A p \in Products : AvailableQuantity(p) = AvailableWith(p, cart))
    /\ [][\A p \in Products :
             /\ (addToCart(p) \/ updateQuantity(p, 1))
                => LET requested == QuantityIn(cart, p) + 1
                       available == AvailableQuantity(p)
                   IN  /\ IF requested <= available
                          THEN /\ QuantityIn(cart', p) = requested
                               /\ AvailableWith(p, cart') = available - 1
                          ELSE /\ cart' = cart
                               /\ alert' = InsufficientInventory(available, requested)
                       /\ OtherLinesKept(p)
                       /\ UNCHANGED <<savedCarts, currentCartId, inventory>>
             /\ updateQuantity(p, -1)
                => /\ QuantityIn(cart', p) = QuantityIn(cart, p) - 1
                   /\ AvailableWith(p, cart') >= AvailableQuantity(p)
                   /\ OtherLinesKept(p)
                   /\ UNCHANGED <<savedCarts, currentCartId, inventory>>
             /\ removeFromCart(p)
                => /\ QuantityIn(cart', p) = 0
                   /\ OtherLinesKept(p)
                   /\ UNCHANGED <<savedCarts, currentCartId, inventory>>]_vars

\* a line was raised twice and the third increase was refused against the
\* availability the two accepted ones left
C18_Witness ==
    \E p \in Products :
        /\ alert.kind = "insufficientInventory"
        /\ LiveReserved(p) >= 2
        /\ alert.requested = LiveReserved(p) + 1
        /\ alert.available = AvailableQuantity(p)
        /\ alert.available > 0

----------------------------------------------------------------------------
(* Expired stock *)

\* stock records of p are loaded and every one of them is expired
AllExpired(p) ==
    /\ \E i \in 1..Len(inventory) : inventory[i].product = p
    /\ \A i \in 1..Len(inventory) : inventory[i].product = p => inventory[i].expiry < 0

\* C19: a stock record counts for the sellable stock of its product only if its
\* quantity is > 0 and it is not expired; a product whose loaded records are all
\* expired has available quantity 0 and every addLine for it is refused, whatever
\* the quantities of the records.
C19_ExpiredStockNotSellable ==
    /\ [](/\ \A p \in Products : MapGet(totalInventoryQuantity, p) = SellableStock(p)
          /\ \A i \in 1..Len(inventory) :
                IsSellable(inventory[i]) <=> (inventory[i].quantity > 0 /\ inventory[i].expiry >= 0)
          /\ \A p \in Products : AllExpired(p) => AvailableQuantity(p) = 0)
    /\ [][\A p \in Products :
             (addToCart(p) /\ AllExpired(p))
             => /\ cart' = cart
                /\ alert' = InsufficientInventory(0, QuantityIn(cart, p) + 1)]_vars

\* an addLine was just refused for a product on the grid whose only loaded record
\* is expired and has a quantity of 5, while every other product on the grid has
\* stock left
C19_Witness ==
    \E p \in Products :
        /\ AllExpired(p)
        /\ \E i \in 1..Len(inventory) : inventory[i].product = p /\ inventory[i].quantity = 5
        /\ \E i \in 1..Len(displayedProducts) : displayedProducts[i] = p
        /\ \A r \in Products : r # p => AvailableQuantity(r) > 0
        /\ alert = InsufficientInventory(0, 1)
        /\ ~isLoading

----------------------------------------------------------------------------
(* Unsaved work *)

\* the live cart holds lines that are not what the store holds for currentCartId
HasUnsavedWork ==
    /\ cart # <<>>
    /\ \/ currentCartId = NoCart
       \/ ~HasCart(savedCarts, currentCartId)
       \/ cart # SavedCartOf(currentCartId).items

\* C20: when the live cart is not empty and differs from what is saved for
\* currentCartId (no current cart, or a loaded cart that was edited since its last
\* save), loadCart replaces the live cart only after the cashier confirmed; without
\* a confirmation the cart and currentCartId stay as they are.
C20_LoadAsksBeforeDiscarding ==
    [][\A i \in 1..Len(savedCarts) :
          (handleLoadCart(i, FALSE) /\ HasUnsavedWork)
          => UNCHANGED <<cart, currentCartId>>]_vars

----------------------------------------------------------------------------
(* The logical states of the ledger *)

\* C21: the ledger is always in one of three states: live cart empty with
\* currentCartId null, live cart non-empty with currentCartId null, or currentCartId
\* set with a non-empty live cart; the live cart is never empty while currentCartId
\* is set.
C21_NoEmptyCurrentCart ==
    \/ cart = <<>> /\ currentCartId = NoCart
    \/ cart # <<>> /\ currentCartId = NoCart
    \/ cart # <<>> /\ currentCartId # NoCart

----------------------------------------------------------------------------
(* What cart edits leave alone *)

\* a cart edit: addLine, adjustQuantity or removeLine
CartEdit ==
    \/ \E p \in Products : addToCart(p)
    \/ \E p \in Products, delta \in {-1, 1} : updateQuantity(p, delta)
    \/ \E p \in Products : removeFromCart(p)

\* C22: addLine, adjustQuantity and removeLine change only the live cart: savedCarts,
\* the cart store and currentCartId are as they were before the edit, so that the
\* saved entry of the loaded cart keeps the items it had until the cart is saved.
C22_EditsChangeOnlyLiveCart ==
    [][CartEdit =>
         /\ savedCarts' = savedCarts
         /\ store' = store
         /\ currentCartId' = currentCartId
         /\ currentCartId # NoCart /\ HasCart(savedCarts, currentCartId) =>
              savedCarts'[FindIndex(savedCarts', currentCartId)].items
                  = SavedCartOf(currentCartId).items]_vars

\* a loaded cart was edited: its saved entry still holds the lines it was loaded
\* with, and the live cart holds other lines
C22_Witness ==
    /\ currentCartId # NoCart
    /\ HasCart(savedCarts, currentCartId)
    /\ cart # <<>>
    /\ cart # SavedCartOf(currentCartId).items
    /\ alert = NoAlert

----------------------------------------------------------------------------
(* The inventory feed under every interleaving of requests and responses *)

\* the searches and page requests of the page with their responses in any order
\* (the responses of the backend may fail, and may overtake each other)
SpecCatalog == Init /\ [][Catalog]_vars

\* a follow-up page request is in flight
MoreInFlight == \E i \in 1..Len(pendingFetches) : pendingFetches[i].kind = "more"

\* the records accumulated for the search q: the inventory, as far as it is the
\* beginning of what the backend holds for q
AccumulatedFor(q) ==
    LET n == Min(Len(inventory), Len(Backend(q)))
    IN  Cardinality({k \in 0..n : \A i \in 1..k : inventory[i] = Backend(q)[i]}) - 1

\* C23: each follow-up page request of the current search uses an offset equal to
\* the number of stock records already accumulated for that search, and is sent only
\* while no other follow-up page request is in flight; a failed page request leaves
\* the accumulated records as they were, and the next page can be requested again.
C23_PagingFollowsCurrentSearch ==
    [][/\ loadMoreInventory =>
            /\ ~MoreInFlight
            /\ inventoryOffsetRef = AccumulatedFor(searchQuery)
            /\ Len(inventory) = AccumulatedFor(searchQuery)
       /\ (\E i \in 1..Len(pendingFetches) : morePageFailed(i)) =>
            /\ inventory' = inventory
            /\ inventoryOffsetRef' = inventoryOffsetRef
            /\ hasMoreInventoryRef' = hasMoreInventoryRef
            /\ ~isLoadingMoreRef']_vars

----------------------------------------------------------------------------
(* Deleting a parked cart *)

\* the quantity of P in the carts of a list other than the cart `current`
ReservedBy(carts, current, p) ==
    SumOver({i \in 1..Len(carts) : carts[i].id # current},
            [i \in 1..Len(carts) |-> QuantityIn(carts[i].items, p)])

\* max(0, S - O - L) for the saved carts `carts`, the current cart id and the live cart
AvailableFor(p, carts, current, items) ==
    Max(0, SellableStock(p) - ReservedBy(carts, current, p) - QuantityIn(items, p))

\* C24: when a saved cart other than the current one is deleted and the reservations
\* on a product P (saved carts and live cart) did not exceed the sellable stock of P
\* before, the available quantity of P rises by exactly the quantity of P the
\* deleted cart held; the available quantity is in every state the one that results
\* from the saved carts, the current cart id and the live cart of that state.
C24_DeleteReleasesReservation ==
    /\ [](\A p \in Products :
            AvailableQuantity(p) = AvailableFor(p, savedCarts, currentCartId, cart))
    /\ [][\A i \in 1..Len(savedCarts) :
             (savedCarts[i].id # currentCartId /\ handleDeleteCart(i, TRUE))
             => \A p \in Products :
                   LiveReserved(p) + OtherReserved(p) <= SellableStock(p)
                   => AvailableFor(p, savedCarts', currentCartId', cart')
                        = AvailableQuantity(p) + QuantityIn(savedCarts[i].items, p)]_vars

\* the cart saved first was deleted from the list of saved carts while the cart saved
\* second is the current one, and the stock of a product the live cart does not hold
\* is free again
C24_Witness ==
    /\ isLoadCartModalOpen
    /\ now = 2
    /\ Len(savedCarts) = 1
    /\ savedCarts[1].id = 2
    /\ currentCartId = 2
    /\ \E p \in Products :
          /\ QuantityIn(cart, p) = 0
          /\ AvailableQuantity(p) = SellableStock(p)
          /\ SellableStock(p) >= 2

----------------------------------------------------------------------------
(* Order submissions in flight *)

\* C25: at most one order submission is in flight at any time: confirming the
\* checkout again while a submission has not been answered sends no second request,
\* so the lines of one cart are never submitted as two orders.
C25_OneSubmissionInFlight ==
    /\ Len(pendingCheckouts) <= 1
    /\ \A i, j \in 1..Len(pendingCheckouts) :
          (i # j /\ pendingCheckouts[i].cartId = pendingCheckouts[j].cartId)
          => pendingCheckouts[i].items # pendingCheckouts[j].items


NextOrders == EditCart \/ Checkout

\* an unsaved cart that is edited while its orders are submitted, with the stock of
\* the search "a" loaded
SpecOrders == InitLedger /\ [][NextOrders]_vars

\* the lines of `items` that are not in `kept` with the same quantity
LinesRemoved(items, kept) ==
    {items[k] : k \in {k \in 1..Len(items) :
                          ~\E m \in 1..Len(kept) : kept[m] = items[k]}}

\* C26: a successful checkout clears only what was ordered: every line (product and
\* quantity) its success handler removes from the live cart is a line of the items
\* that were submitted, and the saved cart it deletes is the current cart of the
\* confirmation, whatever was edited or loaded while the request was in flight.
C26_SuccessClearsOnlyOrderedLines ==
    [][\A i \in 1..Len(pendingCheckouts) :
          checkoutSucceeded(i)
          => LET request == pendingCheckouts[i]
             IN  /\ \A line \in LinesRemoved(cart, cart') :
                       \E m \in 1..Len(request.items) : request.items[m] = line
                 /\ store' = Without(store, request.cartId)
                 /\ savedCarts' = Without(savedCarts, request.cartId)]_vars

----------------------------------------------------------------------------
(* Stale responses of the inventory feed *)

\* C27: under every interleaving of searches, page requests and their responses,
\* no stock record of the backend is held twice in the accumulated inventory (so
\* that it counts at most once in the total sellable stock of its product), and every
\* record of the accumulated inventory was returned for the most recent search term.
C27_InventoryOfCurrentSearchOnly ==
    /\ \A i, j \in 1..Len(inventory) : i # j => inventory[i].id # inventory[j].id
    /\ \A i \in 1..Len(inventory) :
          \E k \in 1..Len(Backend(searchQuery)) : Backend(searchQuery)[k] = inventory[i]

\* C28: every search started with a non-empty term, also one that repeats the term
\* of the previous search, clears the inventory and leaves a first-page request for
\* that term in flight, so that the cleared inventory is filled again when the
\* backend answers.
C28_SearchIssuesFirstPageRequest ==
    [][\A input \in SearchInputs :
          (Trim(input) # "" /\ handleSearch(input))
          => /\ inventory' = <<>>
             /\ \E i \in 1..Len(pendingFetches') :
                   pendingFetches'[i] = FirstPageRequest(Trim(input))]_vars

----------------------------------------------------------------------------
(* The saved carts of the page and of the store *)

\* C29: in a single session the savedCarts list of the page equals the list the
\* store holds (same carts, same order, same contents): after the initial load and
\* after every saveCart, updateCart, deleteCart and successful checkout, and so in
\* every state, since no other step changes either list.
C29_SavedCartsMirrorStore ==
    /\ [](savedCarts = getSavedCarts)
    /\ [][(\/ handleSaveCart
           \/ handleConfirmSaveCart
           \/ \E i \in 1..Len(savedCarts) : handleDeleteCart(i, TRUE)
           \/ \E i \in 1..Len(pendingCheckouts) : checkoutSucceeded(i))
          => savedCarts' = store']_vars

\* the second of two saved carts was saved again
C29_Witness ==
    /\ alert.kind = "cartUpdated"
    /\ Len(savedCarts) = 2
    /\ Len(store) = 2
    /\ currentCartId = savedCarts[1].id
    /\ savedCarts[1].updatedAt = now

\* the entries of a list of saved carts with the given id
EntriesOf(carts, cartId) == {i \in 1..Len(carts) : carts[i].id = cartId}

\* C30: in a single session, whenever currentCartId is not null, savedCarts holds
\* exactly one entry with that id, after any sequence of save, update, load, delete,
\* new cart, clear and checkout steps, also when the answer to a checkout arrives
\* after other steps.
C30_CurrentCartIsSavedOnce ==
    currentCartId # NoCart => Cardinality(EntriesOf(savedCarts, currentCartId)) = 1

\* an unsaved cart was submitted and saved while the submission was in flight: the
\* order was created, and the saved cart is still the current one
C30_Witness ==
    /\ completed.result = "ok"
    /\ completed.cartId = NoCart
    /\ currentCartId # NoCart
    /\ Len(savedCarts) = 2
    /\ HasCart(savedCarts, currentCartId)

============================================================================
